---- MODULE Spec2Model ----
(***************************************************************************)
(* A model of xradio's MSv2 -> processing-set conversion                   *)
(* (src/src/xradio/vis/convert_msv2_to_processing_set.py): the index       *)
(* builder, the column materializer, the partition writer and the          *)
(* partition enumerator, over an abstract zarr store.                      *)
(***************************************************************************)
EXTENDS Integers, Sequences, FiniteSets, TLC

VARIABLES
    main_table,       \* rows of the MAIN table of infile, in table order
    colnames,         \* tb_tool.colnames(): the columns of the MAIN table
    bad_cols,         \* columns whose read or scatter raises
    chan_freq,        \* SPECTRAL_WINDOW.CHAN_FREQ, per spectral window id
    parallel,         \* arguments of convert_msv2_to_processing_set
    overwrite,
    storage_backend,
    store,            \* the output store: path -> what is stored there
    pc,               \* position of the caller / of the entry point
    idx,              \* position of the enumeration loop
    delayed_list,     \* the deferred tasks of a parallel run
    pending,          \* indices of delayed_list dask has not run yet
    task_failed,      \* a task of the current dask.compute raised
    runs,             \* calls of the entry point so far
    store0,           \* the store before the first call
    run_start,        \* the store when the current run began
    run1_end,         \* the store when the first run ended
    attempted,        \* pairs convert_and_write_partition ran for in this run
    errors,           \* pairs whose conversion raised in this run
    last,             \* the most recent convert_and_write_partition call
    indx,             \* what calc_indx_for_row_split returned to a direct caller
    dispatched,       \* pairs the enumeration loop has dispatched in this run
    ps,               \* what read_processing_set returned
    dense             \* what read_col returned to a direct caller

vars == <<main_table, colnames, bad_cols, chan_freq, parallel, overwrite,
          storage_backend, store, pc, idx, delayed_list, pending, task_failed,
          runs, store0, run_start, run1_end, attempted, errors, last, indx,
          dispatched, ps, dense>>

----------------------------------------------------------------------------
(* Bounds of the model. *)

\* rows of DATA_DESCRIPTION and of FIELD in the input
NumDdi == 2
NumField == 2
\* distinct timestamps of one (ddi, field) partition
MaxTimes == 2
\* rows of the MAIN table
MaxTableRows == 4
\* calls of the entry point in one behaviour
MaxRuns == 2
\* rows of a row set handed to the index builder, its largest antenna id and
\* its distinct timestamps
MaxRows == 3
MaxAnt == 1
MaxStamp == 2
\* channels of a spectral window
MaxChan == 3
\* columns whose read fails in one conversion
MaxBad == 1

----------------------------------------------------------------------------
(* Python values. *)

\* None, as the value of an integer argument
None == -1
\* NaN, as a channel frequency
NaN == -999

Range(s) == {s[i] : i \in 1 .. Len(s)}

Reverse(s) == [i \in 1 .. Len(s) |-> s[Len(s) + 1 - i]]

----------------------------------------------------------------------------
(* Baseline keys: str(a).zfill(3) + "_" + str(b).zfill(3), as sequences of  *)
(* character codes, compared the way Python and numpy compare strings.     *)

ZeroChar == 48
UnderscoreChar == 95

RECURSIVE str(_)
\* str(n) of a non-negative integer: its decimal digits
str(n) ==
    IF n < 10 THEN <<ZeroChar + n>>
    ELSE str(n \div 10) \o <<ZeroChar + (n % 10)>>

RECURSIVE zfill(_, _)
zfill(s, width) == IF Len(s) >= width THEN s ELSE zfill(<<ZeroChar>> \o s, width)

RECURSIVE int(_)
\* int(s) of a string of decimal digits
int(s) ==
    IF Len(s) = 0 THEN 0
    ELSE 10 * int(SubSeq(s, 1, Len(s) - 1)) + (s[Len(s)] - ZeroChar)

RECURSIVE StrLess(_, _)
\* s < t for strings: lexicographic on the character codes
StrLess(s, t) ==
    IF Len(t) = 0 THEN FALSE
    ELSE IF Len(s) = 0 THEN TRUE
    ELSE IF s[1] # t[1] THEN s[1] < t[1]
    ELSE StrLess(Tail(s), Tail(t))

baseline_key(a1, a2) == zfill(str(a1), 3) \o <<UnderscoreChar>> \o zfill(str(a2), 3)

\* x.split("_") of a baseline key: the parts before and after the separator
split_key(x) ==
    LET p == CHOOSE i \in 1 .. Len(x) :
                 x[i] = UnderscoreChar /\ \A j \in 1 .. i - 1 : x[j] # UnderscoreChar
    IN  <<SubSeq(x, 1, p - 1), SubSeq(x, p + 1, Len(x))>>

\* x < y for two numbers (kind "num") or two strings (kind "str")
Less(kind, x, y) == IF kind = "str" THEN StrLess(x, y) ELSE x < y

\* np.unique(S): the distinct elements of S, ascending
unique(S, kind) ==
    [i \in 1 .. Cardinality(S) |->
        CHOOSE x \in S : Cardinality({y \in S : Less(kind, y, x)}) = i - 1]

\* np.searchsorted(a, v, side="right"): the elements of a not above v
searchsorted_right(a, v, kind) ==
    Cardinality({i \in 1 .. Len(a) : ~Less(kind, v, a[i])})

\* np.searchsorted(a, v): the number of elements of the sorted a below v
searchsorted(a, v, kind) == Cardinality({i \in 1 .. Len(a) : Less(kind, a[i], v)})

----------------------------------------------------------------------------
(* Index builder. *)

\* the sorted distinct baselines of the row set
get_baselines(tb_tool) ==
    unique({baseline_key(tb_tool[i].ANTENNA1, tb_tool[i].ANTENNA2) :
               i \in 1 .. Len(tb_tool)}, "str")

\* the sorted distinct timestamps of the row set
get_utimes_tol(tb_tool) ==
    unique({tb_tool[i].TIME : i \in 1 .. Len(tb_tool)}, "num")

\* seconds between the casacore (MJD) epoch and the unix epoch, scaled down
CasacoreEpoch == 10

\* convert_casacore_time(utimes, False): MJD seconds to unix seconds
convert_casacore_time(rawtimes) ==
    [i \in 1 .. Len(rawtimes) |-> rawtimes[i] - CasacoreEpoch]

\* columns whose cells are (frequency, polarization) arrays
SpectralCols == {"FLOAT_DATA", "DATA", "CORRECTED_DATA", "WEIGHT_SPECTRUM",
                 "FLAG", "MODEL_DATA"}

\* the end of calc_indx_for_row_split: didxs and the antenna ids of the axes
row_indexes(baselines, utimes, tidxs, bidxs) ==
    [ok |-> TRUE,
     tidxs |-> tidxs,
     bidxs |-> bidxs,
     didxs |-> {i \in DOMAIN bidxs : bidxs[i] >= 0 /\ bidxs[i] < Len(baselines)},
     baseline_ant1_id |-> [b \in 1 .. Len(baselines) |->
                              int(split_key(baselines[b])[1])],
     baseline_ant2_id |-> [b \in 1 .. Len(baselines) |->
                              int(split_key(baselines[b])[2])],
     utime |-> convert_casacore_time(utimes)]

\* calc_indx_for_row_split, given its two sorted axes
row_split(tb_tool, cols, baselines, utimes) ==
    IF {c \in Range(cols) : c \in SpectralCols} = {}
    THEN [ok |-> FALSE, error |-> "IndexError"]
    ELSE row_indexes(baselines, utimes,
                     [i \in 1 .. Len(tb_tool) |->
                         searchsorted(utimes, tb_tool[i].TIME, "num")],
                     [i \in 1 .. Len(tb_tool) |->
                         searchsorted(baselines,
                                      baseline_key(tb_tool[i].ANTENNA1,
                                                   tb_tool[i].ANTENNA2), "str")])

calc_indx_for_row_split(tb_tool, cols) ==
    row_split(tb_tool, cols, get_baselines(tb_tool), get_utimes_tol(tb_tool))

----------------------------------------------------------------------------
(* Column materializer. *)

\* the numpy dtype of a column of the MAIN table
dtype_of(col) ==
    CASE col = "FLAG" -> "bool"
      [] col \in {"DATA", "CORRECTED_DATA", "MODEL_DATA"} -> "complex"
      [] col \in {"SCAN_NUMBER"} -> "int"
      [] OTHER -> "float"

\* np.full(shape, np.nan, dtype=dtype): NaN as a value of the dtype
nan_as(dtype) ==
    CASE dtype = "bool" -> "True"
      [] dtype = "int" -> "ValueError"
      [] OTHER -> "nan"

\* the spectral window of a data description id (DATA_DESCRIPTION.sel(row=ddi))
spectral_window_id(ddi) == ddi

\* chan_freq[~isnan(chan_freq)] of a spectral window
valid_chan_freq(spw_id) == SelectSeq(chan_freq[spw_id], LAMBDA f : f # NaN)

\* the value of column col in one row: a scalar, or one value per channel
cell_of(col, row) ==
    IF col \in SpectralCols
    THEN [c \in 1 .. Len(valid_chan_freq(spectral_window_id(row.DATA_DESC_ID))) |->
             col \o "#" \o ToString(row.val) \o "@" \o ToString(c)]
    ELSE col \o "#" \o ToString(row.val)

\* tb_tool.getcol(col): one cell per row, in row order
getcol(tb_tool, col) == [i \in 1 .. Len(tb_tool) |-> cell_of(col, tb_tool[i])]

\* np.full(cshape + data.shape[1:], np.nan, dtype): one cell of it
full_cell(col, data, fill) ==
    IF col \in SpectralCols THEN [c \in 1 .. Len(data[1]) |-> fill] ELSE fill

RECURSIVE scatter(_, _, _, _, _)
\* fulldata[tidxs, bidxs] = data: the rows assigned in order, from row i on
scatter(fulldata, tidxs, bidxs, data, i) ==
    IF i > Len(data) THEN fulldata
    ELSE scatter([fulldata EXCEPT ![<<tidxs[i], bidxs[i]>>] = data[i]],
                 tidxs, bidxs, data, i + 1)

\* read_col, given the column's data
full_and_scatter(col, data, cshape, tidxs, bidxs, fill) ==
    IF col \in bad_cols
    THEN [ok |-> FALSE, error |-> "RuntimeError"]
    ELSE IF fill = "ValueError"
    THEN [ok |-> FALSE, error |-> "ValueError"]
    ELSE IF \E i \in 1 .. Len(data) :
                <<tidxs[i], bidxs[i]>> \notin
                    (0 .. cshape[1] - 1) \X (0 .. cshape[2] - 1)
    THEN [ok |-> FALSE, error |-> "IndexError"]
    ELSE [ok |-> TRUE,
          fulldata |-> scatter([c \in (0 .. cshape[1] - 1) \X (0 .. cshape[2] - 1) |->
                                   full_cell(col, data, fill)],
                               tidxs, bidxs, data, 1)]

read_col(tb_tool, col, cshape, tidxs, bidxs, didxs) ==
    full_and_scatter(col, getcol(tb_tool, col), cshape, tidxs, bidxs,
                     nan_as(dtype_of(col)))

----------------------------------------------------------------------------
(* Partition conversion and write. *)

outfile == "ps.zarr"

data_desc_ids == 0 .. NumDdi - 1
field_ids == 0 .. NumField - 1

col_to_data_variable_names ==
    [FLOAT_DATA |-> "SPECTRUM", DATA |-> "VISIBILITY",
     CORRECTED_DATA |-> "VISIBILITY_CORRECTED", WEIGHT_SPECTRUM |-> "WEIGHT",
     WEIGHT |-> "WEIGHT", FLAG |-> "FLAG", UVW |-> "UVW",
     TIME_CENTROID |-> "TIME_CENTROID", EXPOSURE |-> "EFFECTIVE_INTEGRATION_TIME"]

\* the columns with a frequency dimension in col_dims
FrequencyCols == {"DATA", "CORRECTED_DATA", "WEIGHT_SPECTRUM", "WEIGHT", "FLAG",
                  "FLOAT_DATA"}

\* the output location of a partition
file_name_of(field_id) ==
    IF field_id # None THEN outfile \o "_field_id_" \o ToString(field_id) ELSE outfile

\* the rows "select * from $mtable where (DATA_DESC_ID = ddi) [AND (FIELD_ID = f)]"
open_query(ddi, field_id) ==
    SelectSeq(main_table,
              LAMBDA r : r.DATA_DESC_ID = ddi
                         /\ (field_id # None => r.FIELD_ID = field_id))

\* np.tile(a[:, :, None, :], (1, 1, n_chan, 1)): every cell repeated per channel
tile(fulldata, n_chan) ==
    [c \in DOMAIN fulldata |-> [k \in 1 .. n_chan |-> fulldata[c]]]

\* a column loop whose failed read discards the variables set before it
set_data_variable_dropping(xds, col, r, n_chan) ==
    IF ~r.ok THEN <<>>
    ELSE [n \in DOMAIN xds \cup {col_to_data_variable_names[col]} |->
             IF n = col_to_data_variable_names[col]
             THEN [col |-> col,
                   frequency |-> col \in FrequencyCols,
                   data |-> IF col = "WEIGHT" THEN tile(r.fulldata, n_chan)
                            ELSE r.fulldata]
             ELSE xds[n]]

\* xds[col_to_data_variable_names[col]] = xr.DataArray(...), unless the read raised
set_data_variable(xds, col, r, n_chan) ==
    IF ~r.ok THEN xds
    ELSE [n \in DOMAIN xds \cup {col_to_data_variable_names[col]} |->
             IF n = col_to_data_variable_names[col]
             THEN [col |-> col,
                   frequency |-> col \in FrequencyCols,
                   data |-> IF col = "WEIGHT" THEN tile(r.fulldata, n_chan)
                            ELSE r.fulldata]
             ELSE xds[n]]

\* a pass of the column loop that reads WEIGHT whatever the other columns
data_variable_no_skip(xds, tb_tool, col, cols, cshape, ix, n_chan) ==
    IF col \notin DOMAIN col_to_data_variable_names THEN xds
    ELSE set_data_variable(xds, col,
                           read_col(tb_tool, col, cshape, ix.tidxs, ix.bidxs,
                                    ix.didxs),
                           n_chan)

\* one pass of the column loop
data_variable(xds, tb_tool, col, cols, cshape, ix, n_chan) ==
    IF col \notin DOMAIN col_to_data_variable_names THEN xds
    ELSE IF col = "WEIGHT" /\ "WEIGHT_SPECTRUM" \in Range(cols) THEN xds
    ELSE set_data_variable(xds, col,
                           read_col(tb_tool, col, cshape, ix.tidxs, ix.bidxs,
                                    ix.didxs),
                           n_chan)

RECURSIVE data_variables(_, _, _, _, _, _, _)
\* the column loop from column i on: the data variables of xds, by name
data_variables(xds, tb_tool, cols, cshape, ix, n_chan, i) ==
    IF i > Len(cols) THEN xds
    ELSE data_variables(data_variable(xds, tb_tool, cols[i], cols, cshape, ix,
                                      n_chan),
                        tb_tool, cols, cshape, ix, n_chan, i + 1)

\* the assertion on np.unique(tb_tool.getcol("FIELD_ID"))
check_single_field(tb_tool) ==
    IF Cardinality({tb_tool[i].FIELD_ID : i \in 1 .. Len(tb_tool)}) = 1
    THEN [ok |-> TRUE, value |-> tb_tool[1].FIELD_ID]
    ELSE [ok |-> FALSE, error |-> "AssertionError"]

\* the interval of the first row, taken without the assertion
interval_unchecked(tb_tool) == [ok |-> TRUE, value |-> tb_tool[1].INTERVAL]

\* the assertion on np.unique(tb_tool.getcol("INTERVAL"))
check_interval_consistent(tb_tool) ==
    IF Cardinality({tb_tool[i].INTERVAL : i \in 1 .. Len(tb_tool)}) = 1
    THEN [ok |-> TRUE, value |-> tb_tool[1].INTERVAL]
    ELSE [ok |-> FALSE, error |-> "AssertionError"]

\* xds.sel(frequency=slice(None, None, -1))
reverse_frequency(xds) ==
    [coords |-> [xds.coords EXCEPT !.frequency = Reverse(@)],
     attrs |-> xds.attrs,
     data_vars |-> [n \in DOMAIN xds.data_vars |->
        IF xds.data_vars[n].frequency
        THEN [xds.data_vars[n] EXCEPT !.data =
                 [c \in DOMAIN @ |-> Reverse(@[c])]]
        ELSE xds.data_vars[n]]]

\* xds.sel(time=slice(None, None, -1))
reverse_time(xds) ==
    [coords |-> [xds.coords EXCEPT !.time = Reverse(@)],
     attrs |-> xds.attrs,
     data_vars |-> [n \in DOMAIN xds.data_vars |->
        [xds.data_vars[n] EXCEPT !.data =
            [c \in DOMAIN @ |-> @[<<Len(xds.coords.time) - 1 - c[1], c[2]>>]]]]]

\* if xds.time[1] - xds.time[0] < 0: reverse the time axis
fix_time(xds) ==
    IF Len(xds.coords.time) < 2 THEN [ok |-> FALSE, error |-> "IndexError"]
    ELSE [ok |-> TRUE,
          xds |-> IF xds.coords.time[2] - xds.coords.time[1] < 0
                  THEN reverse_time(xds) ELSE xds]

\* if xds.frequency[1] - xds.frequency[0] < 0: reverse the frequency axis
fix_frequency(xds) ==
    IF Len(xds.coords.frequency) < 2 THEN [ok |-> FALSE, error |-> "IndexError"]
    ELSE [ok |-> TRUE,
          xds |-> IF xds.coords.frequency[2] - xds.coords.frequency[1] < 0
                  THEN reverse_frequency(xds) ELSE xds]

\* the time axis after the frequency axis
then_fix_time(f) == IF ~f.ok THEN f ELSE fix_time(f.xds)

\* "Time and frequency should always be increasing"
fix_ordering(xds) == then_fix_time(fix_frequency(xds))

\* the ANTENNA subtable of infile, the same for every partition
ant_xds == [table |-> "ANTENNA"]

\* Dataset.to_zarr(store=path, mode=mode): "w-" fails on an existing path
to_zarr(st, path, xds, mode) ==
    IF mode = "w-" /\ path \in DOMAIN st
    THEN [ok |-> FALSE, error |-> "ContainsGroupError", store |-> st]
    ELSE [ok |-> TRUE,
          error |-> "",
          store |-> [p \in DOMAIN st \cup {path} |-> IF p = path THEN xds ELSE st[p]]]

\* the call returns once both writes are done
then_returned(a) ==
    IF ~a.ok THEN [status |-> "raised", error |-> a.error, store |-> a.store]
    ELSE [status |-> "returned", error |-> "", store |-> a.store]

\* ant_xds.to_zarr(store=file_name + "/ANTENNA", mode=mode), after MAIN's write
write_antenna(m, file_name, mode) ==
    IF ~m.ok THEN [status |-> "raised", error |-> m.error, store |-> m.store]
    ELSE then_returned(to_zarr(m.store, file_name \o "/ANTENNA", ant_xds, mode))

\* the write of MAIN and then of ANTENNA
write_partition(st, file_name, xds, backend, mode) ==
    IF backend = "zarr"
    THEN write_antenna(to_zarr(st, file_name \o "/MAIN", xds, mode), file_name, mode)
    ELSE IF backend = "netcdf"
    THEN [status |-> "raised", error |-> "RuntimeError", store |-> st]
    ELSE [status |-> "returned", error |-> "", store |-> st]

\* the dataset, given the outcome of the two assertions
dataset(ix, vs, ddi, field_id, interval) ==
    IF ~field_id.ok THEN field_id
    ELSE IF ~interval.ok THEN interval
    ELSE [ok |-> TRUE,
          xds |-> [data_vars |-> vs,
                   coords |-> [time |-> ix.utime,
                               baseline_antenna1_id |-> ix.baseline_ant1_id,
                               baseline_antenna2_id |-> ix.baseline_ant2_id,
                               frequency |-> valid_chan_freq(spectral_window_id(ddi))],
                   attrs |-> [ddi |-> ddi,
                              field_id |-> field_id.value,
                              integration_time |-> interval.value]]]

\* the column loop and the assertions, given the row indexes
materialize(tb_tool, ddi, ix) ==
    IF ~ix.ok THEN ix
    ELSE dataset(ix,
                 data_variables(<<>>, tb_tool, colnames,
                                <<Len(ix.utime), Len(ix.baseline_ant1_id)>>, ix,
                                Len(valid_chan_freq(spectral_window_id(ddi))), 1),
                 ddi, check_single_field(tb_tool), check_interval_consistent(tb_tool))

\* the dataset convert_and_write_partition assembles from a non-empty row set
assemble(tb_tool, ddi) ==
    materialize(tb_tool, ddi, calc_indx_for_row_split(tb_tool, colnames))

\* the ordering step on the assembled dataset
then_fix_ordering(a) == IF ~a.ok THEN a ELSE fix_ordering(a.xds)

\* the ordering step and the write, given the assembled dataset
order_and_write(st, file_name, o, backend, mode) ==
    IF ~o.ok THEN [status |-> "raised", error |-> o.error, store |-> st]
    ELSE write_partition(st, file_name, o.xds, backend, mode)

\* the conversion without the early return on an empty row set
convert_rows_no_empty_return(st, file_name, tb_tool, ddi, backend, mode) ==
    order_and_write(st, file_name, then_fix_ordering(assemble(tb_tool, ddi)),
                    backend, mode)

\* convert_and_write_partition on the rows of its query
convert_rows(st, file_name, tb_tool, ddi, backend, mode) ==
    IF Len(tb_tool) = 0
    THEN [status |-> "empty", error |-> "", store |-> st]
    ELSE order_and_write(st, file_name, then_fix_ordering(assemble(tb_tool, ddi)),
                         backend, mode)

convert_and_write_partition(st, ddi, field_id, backend, ovw) ==
    convert_rows(st, file_name_of(field_id), open_query(ddi, field_id), ddi,
                 backend, IF ovw THEN "w" ELSE "w-")

----------------------------------------------------------------------------
(* Reading a processing set back (read_processing_set.py). *)

\* the entries of a partition's location
SubNames == {"MAIN", "ANTENNA", "WEATHER"}

\* the names an entry of a directory may have
EntryNames == SubNames \cup {"ddi_0"}

\* os.listdir(ps_name): the names of the entries of directory ps_name
listdir(st, ps_name) ==
    {i \in EntryNames :
        \E p \in DOMAIN st :
            \/ p = ps_name \o "/" \o i
            \/ \E s \in SubNames : p = ps_name \o "/" \o i \o "/" \o s}

\* "ddi" in i
has_ddi(i) == i \notin SubNames

\* xr.open_zarr(path)
open_zarr(st, path) ==
    IF path \in DOMAIN st THEN [ok |-> TRUE, xds |-> st[path]]
    ELSE [ok |-> FALSE, error |-> "GroupNotFoundError"]

\* ps[i], given its MAIN dataset and its two sub-tables
attach(main, antenna_xds, weather_xds) ==
    IF ~main.ok \/ ~antenna_xds.ok \/ ~weather_xds.ok
    THEN [ok |-> FALSE, error |-> "GroupNotFoundError"]
    ELSE [ok |-> TRUE,
          entry |-> [MAIN |-> main.xds, antenna_xds |-> antenna_xds.xds,
                     weather_xds |-> weather_xds.xds]]

\* one pass of the loop over the items
read_item(st, ps_name, i) ==
    attach(open_zarr(st, ps_name \o "/" \o i \o "/MAIN"),
           open_zarr(st, ps_name \o "/" \o i \o "/ANTENNA"),
           open_zarr(st, ps_name \o "/" \o i \o "/WEATHER"))

\* the loop over the items of the directory
read_items(st, ps_name, items) ==
    IF \E i \in items : has_ddi(i) /\ ~read_item(st, ps_name, i).ok
    THEN [ok |-> FALSE, error |-> "GroupNotFoundError", entries |-> <<>>]
    ELSE [ok |-> TRUE, error |-> "",
          entries |-> [i \in {j \in items : has_ddi(j)} |->
                          read_item(st, ps_name, i).entry]]

\* read_processing_set(ps_name), without filters
read_processing_set(st, ps_name) ==
    IF listdir(st, ps_name) = {}
    THEN [ok |-> FALSE, error |-> "FileNotFoundError", entries |-> <<>>]
    ELSE read_items(st, ps_name, listdir(st, ps_name))

----------------------------------------------------------------------------
(* The input: the MAIN table, its columns, the spectral windows. *)

\* itertools.product(data_desc_ids, field_ids), in order
NumPairs == NumDdi * NumField
enumerated_product(k) == <<(k - 1) \div NumField, (k - 1) % NumField>>

\* a partition with n timestamps on one baseline; mixed: its last row has
\* another INTERVAL
Shapes == {sh \in [n : 0 .. MaxTimes, mixed : BOOLEAN] : sh.mixed => sh.n >= 2}

PartitionRows(k, sh) ==
    [i \in 1 .. sh.n |->
        [DATA_DESC_ID |-> enumerated_product(k)[1],
         FIELD_ID |-> enumerated_product(k)[2],
         INTERVAL |-> IF sh.mixed /\ i = sh.n THEN 2 ELSE 1,
         TIME |-> CasacoreEpoch + i,
         ANTENNA1 |-> 0,
         ANTENNA2 |-> 1,
         val |-> 10 * k + i]]

RECURSIVE TableOf(_, _)
\* the MAIN table holding, for each pair from k on, the rows of its shape
TableOf(shapes, k) ==
    IF k > NumPairs THEN <<>>
    ELSE PartitionRows(k, shapes[k]) \o TableOf(shapes, k + 1)

Tables ==
    {t \in {TableOf(shapes, 1) : shapes \in [1 .. NumPairs -> Shapes]} :
        Len(t) <= MaxTableRows}

StandardCols == <<"UVW", "WEIGHT", "FLAG", "DATA">>

StandardFreq == <<1, 2>>

Backends == {"zarr", "netcdf", "hdf5"}

\* the arguments of the entry point; a parallel run never reads storage_backend
Flags ==
    {fl \in [parallel : BOOLEAN, overwrite : BOOLEAN, storage_backend : Backends] :
        fl.parallel => fl.storage_backend # "hdf5"}

EmptyStore == <<>>

\* what the output location may hold before the first call: nothing, or an
\* ANTENNA entry left without its MAIN
PreStores ==
    {EmptyStore,
     [p \in {file_name_of(0) \o "/ANTENNA"} |-> [foreign |-> TRUE]]}

----------------------------------------------------------------------------
(* The entry point and its callers. *)

NoCall == [ddi |-> None, field_id |-> None, status |-> "none", error |-> "",
           before |-> EmptyStore, backend |-> ""]

NoIndex == [ok |-> FALSE, error |-> ""]
NoSet == [ok |-> FALSE, error |-> "", entries |-> <<>>]
NoData == [col |-> "", r |-> [ok |-> FALSE, error |-> ""]]

\* the arguments of the entry point are one of fls
InitFlags(fls) ==
    \E fl \in fls :
        /\ parallel = fl.parallel
        /\ overwrite = fl.overwrite
        /\ storage_backend = fl.storage_backend

\* before the first call
InitCalls ==
    /\ store0 = store
    /\ indx = NoIndex
    /\ dense = NoData
    /\ ps = NoSet
    /\ dispatched = <<>>
    /\ pc = "idle"
    /\ idx = 0
    /\ delayed_list = <<>>
    /\ pending = {}
    /\ task_failed = FALSE
    /\ runs = 0
    /\ run_start = store
    /\ run1_end = store
    /\ attempted = {}
    /\ errors = {}
    /\ last = NoCall

\* the inputs vary in the rows of the MAIN table and in what the output
\* location already holds
Init ==
    /\ main_table \in Tables
    /\ colnames = StandardCols
    /\ bad_cols = {}
    /\ chan_freq = [spw \in 0 .. NumDdi - 1 |-> StandardFreq]
    /\ store \in PreStores
    /\ InitFlags(Flags)
    /\ InitCalls

inputs == <<main_table, colnames, bad_cols, chan_freq, parallel, overwrite,
            storage_backend, store0, indx, dense, ps>>

\* the record of one call of convert_and_write_partition
CallRecord(ddi, field_id, backend, r) ==
    [ddi |-> ddi, field_id |-> field_id, status |-> r.status, error |-> r.error,
     before |-> store, backend |-> backend]

\* convert_msv2_to_processing_set is called
Start ==
    /\ pc \in {"idle", "done", "failed"}
    /\ runs < MaxRuns
    /\ runs' = runs + 1
    /\ pc' = "enum"
    /\ idx' = 0
    /\ delayed_list' = <<>>
    /\ pending' = {}
    /\ task_failed' = FALSE
    /\ run_start' = store
    /\ attempted' = {}
    /\ errors' = {}
    /\ last' = NoCall
    /\ dispatched' = <<>>
    /\ UNCHANGED <<inputs, store, run1_end>>

\* what a call of convert_and_write_partition leaves behind
Converted(ddi, field_id, backend, r) ==
    /\ store' = r.store
    /\ last' = CallRecord(ddi, field_id, backend, r)

\* the call of one pass of the sequential loop: an exception ends the run
LoopCall(pair, r) ==
    /\ Converted(pair[1], pair[2], storage_backend, r)
    /\ attempted' = attempted \cup {pair}
    /\ errors' = IF r.status = "raised" THEN errors \cup {pair} ELSE errors
    /\ pc' = IF r.status = "raised" THEN "failed"
             ELSE IF idx + 1 = NumPairs THEN "done" ELSE "enum"
    /\ run1_end' = IF (r.status = "raised" \/ idx + 1 = NumPairs) /\ runs = 1
                   THEN r.store ELSE run1_end

\* one pass of the loop with parallel = False: the conversion runs in the loop
ConvertInLoop ==
    /\ pc = "enum"
    /\ ~parallel
    /\ idx < NumPairs
    /\ LoopCall(enumerated_product(idx + 1),
                convert_and_write_partition(store, enumerated_product(idx + 1)[1],
                                            enumerated_product(idx + 1)[2],
                                            storage_backend, overwrite))
    /\ idx' = idx + 1
    /\ dispatched' = Append(dispatched, enumerated_product(idx + 1))
    /\ UNCHANGED <<inputs, delayed_list, pending, task_failed, runs, run_start>>

\* one pass of the loop with parallel = True: the conversion is deferred
Defer ==
    /\ pc = "enum"
    /\ parallel
    /\ idx < NumPairs
    /\ delayed_list' = Append(delayed_list, enumerated_product(idx + 1))
    /\ dispatched' = Append(dispatched, enumerated_product(idx + 1))
    /\ idx' = idx + 1
    /\ pc' = IF idx + 1 = NumPairs THEN "compute" ELSE "enum"
    /\ pending' = IF idx + 1 = NumPairs THEN 1 .. NumPairs ELSE pending
    /\ UNCHANGED <<inputs, store, task_failed, runs, run_start, run1_end,
                   attempted, errors, last>>

\* the call of one deferred task
TaskCall(pair, r) ==
    /\ Converted(pair[1], pair[2], "zarr", r)
    /\ attempted' = attempted \cup {pair}
    /\ errors' = IF r.status = "raised" THEN errors \cup {pair} ELSE errors
    /\ task_failed' = (task_failed \/ r.status = "raised")

\* dask.compute runs one deferred task; the task was built without
\* storage_backend, so it runs with the default, "zarr"
RunTask(k) ==
    /\ pc = "compute"
    /\ k \in pending
    /\ TaskCall(delayed_list[k],
                convert_and_write_partition(store, delayed_list[k][1],
                                            delayed_list[k][2], "zarr", overwrite))
    /\ pending' = pending \ {k}
    /\ UNCHANGED <<inputs, pc, idx, delayed_list, runs, run_start, run1_end,
                   dispatched>>

\* a compute that returns without waiting for the tasks it has not run
ComputeReturn_unawaited ==
    /\ pc = "compute"
    /\ ~task_failed
    /\ pc' = "done"
    /\ run1_end' = IF runs = 1 THEN store ELSE run1_end
    /\ UNCHANGED <<inputs, store, idx, delayed_list, pending, task_failed, runs,
                   run_start, attempted, errors, last, dispatched>>

\* dask.compute returns: every task has run and none raised
ComputeReturn ==
    /\ pc = "compute"
    /\ pending = {}
    /\ ~task_failed
    /\ pc' = "done"
    /\ run1_end' = IF runs = 1 THEN store ELSE run1_end
    /\ UNCHANGED <<inputs, store, idx, delayed_list, pending, task_failed, runs,
                   run_start, attempted, errors, last, dispatched>>

\* dask.compute re-raises a task's exception; tasks not yet started never run
ComputeRaise ==
    /\ pc = "compute"
    /\ task_failed
    /\ pc' = "failed"
    /\ run1_end' = IF runs = 1 THEN store ELSE run1_end
    /\ UNCHANGED <<inputs, store, idx, delayed_list, pending, task_failed, runs,
                   run_start, attempted, errors, last, dispatched>>

\* a caller converts one data description on its own, with field_id = None
ConvertAllFields(ddi) ==
    /\ pc \in {"idle", "done", "failed"}
    /\ Converted(ddi, None, storage_backend,
                 convert_and_write_partition(store, ddi, None, storage_backend,
                                             overwrite))
    /\ pc' = "called"
    /\ UNCHANGED <<inputs, idx, delayed_list, pending, task_failed, runs,
                   run_start, run1_end, attempted, errors, dispatched>>

\* after the entry point has returned, a caller reads the processing set at
\* the output path back
ReadProcessingSet ==
    /\ pc = "done"
    /\ ps' = read_processing_set(store, outfile)
    /\ pc' = "loaded"
    /\ UNCHANGED <<main_table, colnames, bad_cols, chan_freq, parallel, overwrite,
                   storage_backend, store, store0, idx, delayed_list, pending,
                   task_failed, runs, run_start, run1_end, attempted, errors, last,
                   dispatched, indx, dense>>

Next ==
    \/ Start
    \/ ConvertInLoop
    \/ Defer
    \/ \E k \in 1 .. NumPairs : RunTask(k)
    \/ ComputeReturn
    \/ ComputeRaise
    \/ \E ddi \in data_desc_ids : ConvertAllFields(ddi)
    \/ ReadProcessingSet

Spec == Init /\ [][Next]_vars

----------------------------------------------------------------------------
(* The entry point on one well-formed partition, over the columns of the    *)
(* MAIN table, the columns whose read fails and the channel frequencies.   *)

\* MAIN tables of different column sets; SCAN_NUMBER is not a data variable
ColumnLists ==
    {StandardCols,
     <<"UVW", "FLAG", "WEIGHT", "WEIGHT_SPECTRUM", "DATA", "CORRECTED_DATA">>,
     <<"SCAN_NUMBER", "FLAG", "FLOAT_DATA", "EXPOSURE", "UVW", "WEIGHT">>,
     <<"WEIGHT_SPECTRUM", "FLAG", "DATA", "WEIGHT", "UVW">>}

BadSets ==
    {S \in SUBSET {"UVW", "WEIGHT", "WEIGHT_SPECTRUM", "FLAG", "DATA"} :
        Cardinality(S) <= MaxBad}

\* CHAN_FREQ of a spectral window: distinct frequencies in any order, or
\* ascending frequencies padded with NaN
FreqLists ==
    {f \in UNION {[1 .. n -> 1 .. MaxChan] : n \in 1 .. MaxChan} :
        \A i, j \in DOMAIN f : i # j => f[i] # f[j]}
    \cup {[i \in 1 .. MaxChan |-> IF i = MaxChan THEN NaN ELSE i]}

\* the first pair has MaxTimes rows, the other pairs none
ColumnsTable ==
    TableOf([k \in 1 .. NumPairs |->
                [n |-> IF k = 1 THEN MaxTimes ELSE 0, mixed |-> FALSE]], 1)

InitColumns ==
    /\ main_table = ColumnsTable
    /\ colnames \in ColumnLists
    /\ bad_cols \in BadSets
    /\ \E f \in FreqLists :
          chan_freq = [spw \in 0 .. NumDdi - 1 |-> IF spw = 0 THEN f ELSE StandardFreq]
    /\ store = EmptyStore
    /\ InitFlags({fl \in Flags : fl.storage_backend = "zarr"})
    /\ InitCalls

SpecColumns == InitColumns /\ [][Next]_vars

----------------------------------------------------------------------------
(* The index builder and the column materializer, called on a row set.     *)

\* the (time, antenna1, antenna2) keys of a row
Keys == (1 .. MaxStamp) \X (0 .. MaxAnt) \X (0 .. MaxAnt)

\* the row set with these keys, in this order; val numbers the rows
RowSet(keys) ==
    [i \in 1 .. Len(keys) |->
        [DATA_DESC_ID |-> 0,
         FIELD_ID |-> 0,
         INTERVAL |-> 1,
         TIME |-> CasacoreEpoch + keys[i][1],
         ANTENNA1 |-> keys[i][2],
         ANTENNA2 |-> keys[i][3],
         val |-> i]]

RowSets == {RowSet(keys) : keys \in UNION {[1 .. n -> Keys] : n \in 1 .. MaxRows}}

\* the columns read_col is called for
ReadableCols == {"UVW", "WEIGHT", "FLAG", "DATA"}

InitIndex ==
    /\ main_table \in RowSets
    /\ colnames = StandardCols
    /\ bad_cols = {}
    /\ chan_freq = [spw \in 0 .. NumDdi - 1 |-> StandardFreq]
    /\ store = EmptyStore
    /\ InitFlags({[parallel |-> FALSE, overwrite |-> FALSE, storage_backend |-> "zarr"]})
    /\ InitCalls

calls == <<parallel, overwrite, storage_backend, store, idx, delayed_list, pending,
           task_failed, runs, store0, run_start, run1_end, attempted, errors, last,
           dispatched, ps>>

\* calc_indx_for_row_split is called on the row set
CalcIndx ==
    /\ pc = "idle"
    /\ indx' = calc_indx_for_row_split(main_table, colnames)
    /\ pc' = "indexed"
    /\ UNCHANGED <<main_table, colnames, bad_cols, chan_freq, calls, dense>>

\* read_col is called on the row set with the indexes of calc_indx_for_row_split
ReadCol(col) ==
    /\ pc = "indexed"
    /\ indx.ok
    /\ dense' = [col |-> col,
                    r |-> read_col(main_table, col,
                                   <<Len(indx.utime), Len(indx.baseline_ant1_id)>>,
                                   indx.tidxs, indx.bidxs, indx.didxs)]
    /\ pc' = "read"
    /\ UNCHANGED <<main_table, colnames, bad_cols, chan_freq, calls, indx>>

NextIndex ==
    \/ CalcIndx
    \/ \E col \in ReadableCols : ReadCol(col)

SpecIndex == InitIndex /\ [][NextIndex]_vars

----------------------------------------------------------------------------
(* The index builder on a row set whose baseline axis was computed for a    *)
(* chunk of it: "some antenna 2's will be out of bounds for this chunk".   *)

\* the indexes of the rows against the baselines of their first n rows
CalcIndxOfChunk(n) ==
    /\ pc = "idle"
    /\ n \in 1 .. Len(main_table)
    /\ indx' = row_split(main_table, colnames,
                         get_baselines(SubSeq(main_table, 1, n)),
                         get_utimes_tol(main_table))
    /\ pc' = "indexed"
    /\ UNCHANGED <<main_table, colnames, bad_cols, chan_freq, calls, dense>>

NextMask ==
    \/ \E n \in 1 .. MaxRows : CalcIndxOfChunk(n)
    \/ \E col \in ReadableCols : ReadCol(col)

SpecMask == InitIndex /\ [][NextMask]_vars

----------------------------------------------------------------------------
(* Properties of the conversion. *)

AllPairs == {enumerated_product(k) : k \in 1 .. NumPairs}

\* the (ddi, field) pairs with at least one row in the input
PairsWithRows == {pair \in AllPairs : Len(open_query(pair[1], pair[2])) > 0}

\* the MAIN entries of the store
MainEntries == {f \in field_ids \cup {None} : file_name_of(f) \o "/MAIN" \in DOMAIN store}

\* the store holds an entry written for this pair and no other
HasOwnEntry(pair) ==
    /\ file_name_of(pair[2]) \o "/MAIN" \in DOMAIN store
    /\ file_name_of(pair[2]) \o "/ANTENNA" \in DOMAIN store
    /\ store[file_name_of(pair[2]) \o "/MAIN"].attrs.ddi = pair[1]
    /\ store[file_name_of(pair[2]) \o "/MAIN"].attrs.field_id = pair[2]

\* the rows the last call selected
LastRows == open_query(last.ddi, last.field_id)

Called == last.status # "none"

\* C1: after a complete run of the entry point into an empty output location,
\* every (ddi, field) pair with rows has an output entry of its own, and there
\* are as many entries as such pairs.
C1_OneEntryPerPair ==
    (pc = "done" /\ runs = 1 /\ run_start = EmptyStore /\ storage_backend = "zarr")
        => /\ \A pair \in PairsWithRows : HasOwnEntry(pair)
           /\ Cardinality(MainEntries) = Cardinality(PairsWithRows)

\* C2: a call of convert_and_write_partition whose query matches no row
\* returns the empty result, does not raise, and leaves the store as it was.
C2_EmptyQueryWritesNothing ==
    (Called /\ Len(LastRows) = 0)
        => (last.status = "empty" /\ last.error = "" /\ store = last.before)

\* a zero-row call on a store that already holds entries has returned
C2_Witness ==
    /\ Called
    /\ Len(LastRows) = 0
    /\ last.status = "empty"
    /\ file_name_of(last.field_id) \o "/MAIN" \in DOMAIN store

\* the destination of the last call held an entry before the call
DestinationExisted ==
    \/ file_name_of(last.field_id) \o "/MAIN" \in DOMAIN last.before
    \/ file_name_of(last.field_id) \o "/ANTENNA" \in DOMAIN last.before

\* C3: with overwrite = False, a call (of the zarr backend, on a non-empty
\* partition) whose destination already holds MAIN or ANTENNA raises, and the
\* store is left exactly as it was before the call.
C3_ConflictLeavesStoreUntouched ==
    (Called /\ ~overwrite /\ last.backend = "zarr" /\ Len(LastRows) > 0
        /\ DestinationExisted)
        => (last.status = "raised" /\ store = last.before)

\* C4: a run of the entry point with a storage backend other than "zarr"
\* writes nothing to the output store (the claim's last conjunct).
C4_UnsupportedBackendWritesNothing ==
    (storage_backend # "zarr" /\ pc \in {"enum", "compute", "done", "failed"})
        => store = run_start

\* the conversion of this pair, taken on its own, writes its partition
ConvertsAlone(pair) ==
    convert_and_write_partition(EmptyStore, pair[1], pair[2], "zarr", TRUE).status
        = "returned"

\* C5: when a run of the entry point ends, in either mode, every enumerated
\* pair whose own conversion does not fail has been converted, whatever
\* happened to the other pairs.
C5_FailureSparesOtherPairs ==
    (pc \in {"done", "failed"})
        => \A pair \in AllPairs : ConvertsAlone(pair) => pair \in attempted

\* the rows the last call selected hold more than one FIELD_ID or INTERVAL
LastRowsMixed ==
    \/ Cardinality({LastRows[i].FIELD_ID : i \in 1 .. Len(LastRows)}) > 1
    \/ Cardinality({LastRows[i].INTERVAL : i \in 1 .. Len(LastRows)}) > 1

\* C6: a call whose rows hold more than one FIELD_ID or more than one INTERVAL
\* raises an assertion error and writes nothing; a call that gets to its
\* write selected rows of exactly one field id and one interval.
C6_MixedPartitionRejected ==
    /\ (Called /\ LastRowsMixed)
          => (last.status = "raised" /\ last.error = "AssertionError"
              /\ store = last.before)
    /\ (Called /\ last.status = "returned") => ~LastRowsMixed
    /\ (Called /\ store # last.before) => ~LastRowsMixed

\* a call on rows of two fields was rejected
C6_Witness ==
    /\ Called
    /\ Cardinality({LastRows[i].FIELD_ID : i \in 1 .. Len(LastRows)}) > 1
    /\ last.error = "AssertionError"
    /\ store = last.before

\* C8: with overwrite = True, a second complete run of the entry point on the
\* same input and output leaves the store as the first run left it.
C8_SecondRunChangesNothing ==
    (overwrite /\ runs = 2 /\ pc = "done") => store = run1_end

----------------------------------------------------------------------------
(* Properties of the columns and the axes of a written partition. *)

\* the columns of the MAIN table the column loop reads
ReadCols ==
    {c \in Range(colnames) :
        /\ c \in DOMAIN col_to_data_variable_names
        /\ ~(c = "WEIGHT" /\ "WEIGHT_SPECTRUM" \in Range(colnames))}

\* the MAIN entry the last call wrote
LastMain == store[file_name_of(last.field_id) \o "/MAIN"]

LastWrote ==
    /\ Called
    /\ last.status = "returned"
    /\ last.backend = "zarr"

\* the position of a row's timestamp on the stored time axis, from 0
TimeIndex(xds, row) ==
    CHOOSE t \in 0 .. Len(xds.coords.time) - 1 :
        xds.coords.time[t + 1] = row.TIME - CasacoreEpoch

\* the position of a row's baseline on the stored baseline axis, from 0
BaselineIndex(xds, row) ==
    CHOOSE b \in 0 .. Len(xds.coords.baseline_antenna1_id) - 1 :
        /\ xds.coords.baseline_antenna1_id[b + 1] = row.ANTENNA1
        /\ xds.coords.baseline_antenna2_id[b + 1] = row.ANTENNA2

\* the channel of the spectral window whose frequency the stored frequency
\* axis holds at position k
SourceChannel(xds, k) ==
    CHOOSE j \in 1 .. Len(valid_chan_freq(spectral_window_id(xds.attrs.ddi))) :
        valid_chan_freq(spectral_window_id(xds.attrs.ddi))[j] = xds.coords.frequency[k]

\* the stored variable of column col holds the value of this row, channel by
\* channel where the column has channels
HoldsRow(xds, col, row) ==
    IF col \in SpectralCols
    THEN \A k \in 1 .. Len(xds.coords.frequency) :
            xds.data_vars[col_to_data_variable_names[col]]
                .data[<<TimeIndex(xds, row), BaselineIndex(xds, row)>>][k]
                = cell_of(col, row)[SourceChannel(xds, k)]
    ELSE IF col = "WEIGHT"
    THEN \A k \in 1 .. Len(xds.coords.frequency) :
            xds.data_vars[col_to_data_variable_names[col]]
                .data[<<TimeIndex(xds, row), BaselineIndex(xds, row)>>][k]
                = cell_of(col, row)
    ELSE xds.data_vars[col_to_data_variable_names[col]]
            .data[<<TimeIndex(xds, row), BaselineIndex(xds, row)>>]
            = cell_of(col, row)

\* C7: when the read of a recognized column fails, the written partition has
\* no variable for it, it has the variable of every other recognized column
\* with the values of the rows at their grid cells, and the conversion of a
\* partition that nothing else stops returns.
C7_FailedColumnOmitted ==
    /\ LastWrote =>
          /\ \A c \in ReadCols \cap bad_cols :
                col_to_data_variable_names[c] \notin DOMAIN LastMain.data_vars
          /\ \A c \in ReadCols \ bad_cols :
                /\ col_to_data_variable_names[c] \in DOMAIN LastMain.data_vars
                /\ LastMain.data_vars[col_to_data_variable_names[c]].col = c
                /\ \A i \in 1 .. Len(LastRows) : HoldsRow(LastMain, c, LastRows[i])
    /\ (/\ Called
        /\ last.backend = "zarr"
        /\ Len(LastRows) > 0
        /\ ~LastRowsMixed
        /\ Len(valid_chan_freq(spectral_window_id(last.ddi))) >= 2
        /\ Cardinality({LastRows[i].TIME : i \in 1 .. Len(LastRows)}) >= 2
        /\ (overwrite \/ ~DestinationExisted))
          => last.status = "returned"

\* a partition was written although the read of one of its columns failed,
\* after the read of another column had succeeded
C7_Witness ==
    /\ LastWrote
    /\ store # last.before
    /\ \E i, j \in 1 .. Len(colnames) :
          /\ i < j
          /\ colnames[i] \in ReadCols \ bad_cols
          /\ colnames[j] \in ReadCols \cap bad_cols

StrictlyIncreasing(s) == \A i \in 1 .. Len(s) - 1 : s[i] < s[i + 1]

\* C9: the frequency axis and the time axis of every partition in the store
\* are strictly increasing.
C9_AxesStrictlyIncreasing ==
    \A p \in DOMAIN store :
        "coords" \in DOMAIN store[p]
            => /\ StrictlyIncreasing(store[p].coords.frequency)
               /\ StrictlyIncreasing(store[p].coords.time)

----------------------------------------------------------------------------
(* Properties of the dense array of a row set. *)

UniquelyKeyed(tb_tool) ==
    \A i, j \in 1 .. Len(tb_tool) :
        (/\ tb_tool[i].TIME = tb_tool[j].TIME
         /\ tb_tool[i].ANTENNA1 = tb_tool[j].ANTENNA1
         /\ tb_tool[i].ANTENNA2 = tb_tool[j].ANTENNA2) => i = j

\* the rows whose timestamp and antennas label cell (t, b) of the grid
RowsAt(t, b) ==
    {i \in 1 .. Len(main_table) :
        /\ indx.utime[t + 1] = main_table[i].TIME - CasacoreEpoch
        /\ indx.baseline_ant1_id[b + 1] = main_table[i].ANTENNA1
        /\ indx.baseline_ant2_id[b + 1] = main_table[i].ANTENNA2}

\* NaN as a value of the column's type: NaN for float and complex columns,
\* True for the boolean FLAG
Sentinel(col) == IF col = "FLAG" THEN "True" ELSE "nan"

\* a cell of the column no row was written to
SentinelCell(col) ==
    IF col \in SpectralCols
    THEN [c \in 1 .. Len(valid_chan_freq(spectral_window_id(0))) |-> Sentinel(col)]
    ELSE Sentinel(col)

Grid == (0 .. Len(indx.utime) - 1) \X (0 .. Len(indx.baseline_ant1_id) - 1)

\* C10: for a row set uniquely keyed by (time, baseline), the array read_col
\* builds with the indexes of calc_indx_for_row_split has one cell for each
\* (distinct time, distinct baseline), holds each row's value at the cell its
\* time and baseline label, and holds the sentinel of the column's type in
\* every cell no row maps to.
C10_DenseArrayHoldsRows ==
    (pc = "read" /\ UniquelyKeyed(main_table)) =>
        /\ dense.r.ok
        /\ DOMAIN dense.r.fulldata = Grid
        /\ Len(indx.utime) =
              Cardinality({main_table[i].TIME : i \in 1 .. Len(main_table)})
        /\ Len(indx.baseline_ant1_id) =
              Cardinality({<<main_table[i].ANTENNA1, main_table[i].ANTENNA2>> :
                              i \in 1 .. Len(main_table)})
        /\ \A i \in 1 .. Len(main_table) : \E c \in Grid : i \in RowsAt(c[1], c[2])
        /\ \A c \in Grid :
              IF RowsAt(c[1], c[2]) = {}
              THEN dense.r.fulldata[c] = SentinelCell(dense.col)
              ELSE \A i \in RowsAt(c[1], c[2]) :
                      dense.r.fulldata[c] = cell_of(dense.col, main_table[i])

\* a dense array was built of a uniquely keyed row set that leaves a cell of
\* its grid empty and whose rows are not in axis order
C10_Witness ==
    /\ pc = "read"
    /\ UniquelyKeyed(main_table)
    /\ dense.r.ok
    /\ \E c \in Grid : RowsAt(c[1], c[2]) = {}
    /\ \E i \in 1 .. Len(main_table) - 1 : main_table[i].TIME > main_table[i + 1].TIME

----------------------------------------------------------------------------
(* Properties of the processing set read back. *)

\* the entry of the processing set that holds this partition
HoldsPartition(e, f) ==
    /\ e.MAIN = store[file_name_of(f) \o "/MAIN"]
    /\ e.antenna_xds = store[file_name_of(f) \o "/ANTENNA"]

\* C11: after a complete run of the entry point has written partitions,
\* read_processing_set on the output path succeeds and returns as many
\* entries as the store holds partitions, one for each of them, with its MAIN
\* dataset and its ANTENNA table.
C11_ReadReturnsWrittenPartitions ==
    (pc = "loaded" /\ runs >= 1 /\ MainEntries # {})
        => /\ ps.ok
           /\ Cardinality(DOMAIN ps.entries) = Cardinality(MainEntries)
           /\ \A f \in MainEntries :
                 \E i \in DOMAIN ps.entries : HoldsPartition(ps.entries[i], f)


----------------------------------------------------------------------------
(* Properties of the enumeration. *)

\* the cross-product of the data description ids and the field ids, ddi-major,
\* both axes ascending
DdiMajor ==
    [k \in 1 .. NumDdi * NumField |->
        CHOOSE pair \in data_desc_ids \X field_ids :
            pair[1] * NumField + pair[2] + 1 = k]

\* C12: when a run of the entry point ends, it has dispatched one conversion
\* for each element of the cross-product of the data description ids and the
\* field ids, in ddi-major order, whatever the run.
C12_EveryPairDispatchedInOrder ==
    (pc \in {"done", "failed"}) => dispatched = DdiMajor

\* C13: with parallel = False every dispatched pair's conversion has run to
\* its end before the loop goes on and nothing is deferred; with
\* parallel = True no conversion runs and nothing is written while the loop
\* enumerates, every pair is deferred, and the entry point has returned only
\* when every deferred task has run.
C13_InLoopOrDeferred ==
    /\ (~parallel /\ pc \in {"enum", "done", "failed"})
          => /\ attempted = Range(dispatched)
             /\ delayed_list = <<>>
             /\ dispatched # <<>>
                   => /\ <<last.ddi, last.field_id>> = dispatched[Len(dispatched)]
                      /\ last.status \in {"empty", "returned", "raised"}
    /\ (parallel /\ pc = "enum")
          => /\ attempted = {}
             /\ store = run_start
             /\ delayed_list = dispatched
    /\ (parallel /\ pc = "done")
          => /\ pending = {}
             /\ delayed_list = dispatched
             /\ Len(delayed_list) = NumPairs
             /\ attempted = Range(delayed_list)

\* a parallel run has returned after its deferred tasks have written
C13_Witness ==
    /\ parallel
    /\ pc = "done"
    /\ store # run_start
    /\ attempted = Range(dispatched)

\* C14: in a parallel run into an empty output location no task writes to a
\* location another task of the run has written: a step of a task leaves
\* every entry the store already holds as it is.
C14_TasksWriteApart ==
    [][(parallel /\ pc = "compute" /\ run_start = EmptyStore)
          => \A p \in DOMAIN store : store'[p] = store[p]]_vars

----------------------------------------------------------------------------
(* Properties of the validity mask. *)

\* the rows whose baseline is on the baseline axis of the indexes
ValidRows ==
    {i \in 1 .. Len(main_table) :
        \E b \in 1 .. Len(indx.baseline_ant1_id) :
            /\ indx.baseline_ant1_id[b] = main_table[i].ANTENNA1
            /\ indx.baseline_ant2_id[b] = main_table[i].ANTENNA2}

----------------------------------------------------------------------------
(* Properties of the WEIGHT variable. *)

\* the written partition has a WEIGHT variable
HasWeight == "WEIGHT" \in DOMAIN LastMain.data_vars

\* C16: in a written partition of a source that has WEIGHT_SPECTRUM, a WEIGHT
\* variable is built from WEIGHT_SPECTRUM and holds its values, wherever the
\* two columns stand; of a source that has WEIGHT alone, it is built from
\* WEIGHT, with the weight of a row repeated on every channel.
C16_SpectrumWeightFirst ==
    LastWrote =>
        /\ ("WEIGHT_SPECTRUM" \in Range(colnames) /\ HasWeight)
              => /\ LastMain.data_vars.WEIGHT.col = "WEIGHT_SPECTRUM"
                 /\ \A i \in 1 .. Len(LastRows) :
                       HoldsRow(LastMain, "WEIGHT_SPECTRUM", LastRows[i])
        /\ (/\ "WEIGHT_SPECTRUM" \notin Range(colnames)
            /\ "WEIGHT" \in Range(colnames) \ bad_cols)
              => /\ HasWeight
                 /\ LastMain.data_vars.WEIGHT.col = "WEIGHT"
                 /\ \A i \in 1 .. Len(LastRows) :
                       HoldsRow(LastMain, "WEIGHT", LastRows[i])
        /\ (HasWeight /\ LastMain.data_vars.WEIGHT.col = "WEIGHT")
              => "WEIGHT_SPECTRUM" \notin Range(colnames)

\* a partition was written of a source whose WEIGHT column comes after its
\* WEIGHT_SPECTRUM column, and it has a WEIGHT variable
C16_Witness ==
    /\ LastWrote
    /\ store # last.before
    /\ HasWeight
    /\ \E i, j \in 1 .. Len(colnames) :
          i < j /\ colnames[i] = "WEIGHT_SPECTRUM" /\ colnames[j] = "WEIGHT"

----------------------------------------------------------------------------
(* Properties of the ordering step. *)

\* C17: a call on a non-empty partition of one field id and one interval,
\* whose destination is free or may be overwritten, returns with the
\* partition written, however many timestamps and channels it has.
C17_ShortAxesConverted ==
    (/\ Called
     /\ Len(LastRows) > 0
     /\ ~LastRowsMixed
     /\ last.backend = "zarr"
     /\ (overwrite \/ ~DestinationExisted))
        => /\ last.status = "returned"
           /\ file_name_of(last.field_id) \o "/MAIN" \in DOMAIN store

====
